---- MODULE Spec2Model ----
(***************************************************************************)
(* State-machine model of the acquisition writers of pymmcore-gui:         *)
(*   TiffSequenceWriterMM  (writers/_tiff_sequence.py)                     *)
(*   OMEZarrWriterMM       (writers/_ome_zarr.py)                          *)
(*   TensorStoreWriterMM   (writers/_tensorstore_zarr.py)                  *)
(* driven by an acquisition engine that delivers sequenceStarted, then     *)
(* frameReady for each event of the sequence, then sequenceFinished or     *)
(* sequenceCanceled.  Python objects shared between the engine and the     *)
(* writer (the MDASequence, the frame-metadata dicts) are state variables, *)
(* so that in-place mutation by the writer is visible.                     *)
(***************************************************************************)
EXTENDS Integers, Sequences, FiniteSets, TLC

VARIABLES
    writer,      \* which writer class is attached to the engine
    phase,       \* engine lifecycle: "idle", "started", "finished", "canceled"
    runs,        \* number of sequenceStarted calls so far
    op,          \* name of the last call the engine / caller made on the writer
    nfin,        \* finalize calls made since the last frame
    raised,      \* exception raised by the last call ("none" when it returned)
    evKind,      \* what the engine's frame metadata carries (see EvKinds)
    engSeq,      \* the engine's MDASequence object (current value)
    givenSeq,    \* its value when it was handed to sequenceStarted
    recs,        \* the frame-metadata dicts of this run (current values)
    handed,      \* their values when they were handed to frameReady
    overwrite,            \* TiffSequenceWriterMM(overwrite=...)
    include_frame_count,  \* TiffSequenceWriterMM(include_frame_count=...)
    tiff,        \* TiffSequenceWriterMM instance fields
    fs,          \* the writer's target directory on disk
    zarr,        \* OMEZarrWriterMM instance fields
    zstore,      \* the zarr group: its attributes and its arrays
    ts,          \* TensorStoreWriterMM instance fields
    kv,          \* the tensorstore key-value store: files and writes in flight
    reader,      \* a reader opened on a finished store, and its last call
    link         \* the Slack link (MMSlackbotCoreLink), its engine and its last call

engineVars == <<writer, phase, runs, op, nfin, raised, evKind, engSeq, givenSeq,
                recs, handed>>
tiffVars == <<overwrite, include_frame_count, tiff, fs>>
zarrVars == <<zarr, zstore>>
tsVars == <<ts, kv>>
vars == <<engineVars, tiffVars, zarrVars, tsVars, reader, link>>

----------------------------------------------------------------------------
(* Bounds and program constants *)

\* number of acquisitions run one after the other on the same writer
MaxRuns == 2
\* number of finalize calls made on a writer after its run has ended
MaxFinalize == 3

\* the test sequence MDA: axis_order p,t,c with 2 positions, 3 loops, 2 channels
NumP == 2
NumT == 3
NumC == 2
\* "write metadata to disk every 10 frames"
FlushEvery == 10

NumFrames == NumP * NumT * NumC

----------------------------------------------------------------------------
(* Python values *)

NoSeq == [kind |-> "None"]
NoEvent == [kind |-> "None"]
NoFile == [kind |-> "absent"]
File(content) == [kind |-> "file", content |-> content]

HANDLER_KEY == "mm_handler"
PYMMCW_METADATA_KEY == "pymmcore_widgets"

AXES == <<"p", "t", "c">>

\* the MDASequence of the tests, as a pydantic model: field values plus the
\* set of fields that were explicitly set
MDA(metadata, names, set) ==
    [kind |-> "MDASequence",
     vals |-> [axis_order |-> AXES,
               stage_positions |-> names,
               metadata |-> metadata,
               keep_shutter_open_across |-> <<>>],
     fields_set |-> set]

Unnamed == [i \in 1..NumP |-> ""]
Named == [i \in 1..NumP |-> "pos" \o ToString(i)]
SetFields == {"axis_order", "stage_positions", "metadata"}

\* a live writer object: the one metadata value that cannot be serialized
LiveObject == "<writer object>"

\* the sequences the engine may be asked to run: the handler slot holds the
\* live writer, is absent, or holds a plain (serializable) value
SeqInputs ==
    { MDA([k \in {PYMMCW_METADATA_KEY, HANDLER_KEY} |->
              IF k = HANDLER_KEY THEN LiveObject ELSE "save_a"],
          Unnamed, SetFields),
      MDA([k \in {PYMMCW_METADATA_KEY} |-> "save_b"], Named, SetFields),
      MDA([k \in {HANDLER_KEY} |-> "handler_name"], Unnamed, SetFields) }

\* what a frame-metadata dict carries under "mda_event":
\*   "full"  an event that references its sequence
\*   "noseq" an event whose sequence is None
\*   "noev"  no "mda_event" entry at all
EvKinds == {"full", "noseq", "noev"}

\* the n-th event (0-based) of a p,t,c sequence, in acquisition order
EventIndex(n) ==
    [a \in {"p", "t", "c"} |->
        CASE a = "p" -> n \div (NumT * NumC)
          [] a = "t" -> (n % (NumT * NumC)) \div NumC
          [] a = "c" -> n % NumC]

EngineEvent(seq, n, kind) ==
    [kind |-> "MDAEvent",
     index |-> EventIndex(n),
     pos_name |-> seq.vals.stage_positions[EventIndex(n)["p"] + 1],
     sequence |-> IF kind = "noseq" THEN NoSeq ELSE seq]

EngineMeta(seq, n, kind, run) ==
    [mda_event |-> IF kind = "noev" THEN NoEvent ELSE EngineEvent(seq, n, kind),
     frame_id |-> <<run, n>>]

----------------------------------------------------------------------------
(* Sanitization: the "mm_handler" entry is removed from a copy *)

\* dict.pop(key, None) applied to a dict
DictPop(d, k) == [x \in (DOMAIN d) \ {k} |-> d[x]]

\* Variant: the pop names another key
CleanSequenceWrongKey(seq) ==
    [seq EXCEPT !.vals.metadata = DictPop(@, PYMMCW_METADATA_KEY),
                !.fields_set = @ \cup {"metadata"}]

\* seq_meta = dict(seq.metadata); seq_meta.pop("mm_handler", None);
\* seq.model_copy(update={"metadata": seq_meta})
CleanSequence(seq) ==
    [seq EXCEPT !.vals.metadata = DictPop(@, HANDLER_KEY),
                !.fields_set = @ \cup {"metadata"}]

\* Variant: seq_meta = seq.metadata, so the pop acts on the engine's dict
SeqObjAfterCleanAliased(seq) ==
    [seq EXCEPT !.vals.metadata = DictPop(@, HANDLER_KEY)]

\* the sequence object that was passed in, after those three statements:
\* the pop acts on the copy made by dict(...), so the object is untouched
SeqObjAfterClean(seq) == seq

\* meta_ev.model_copy(update={"sequence": new_ev_seq})
CleanEvent(ev) == [ev EXCEPT !.sequence = CleanSequence(@)]

\* Variant: the sanitization block is left out
TiffCleanMetaSkipped(meta) == meta

\* the frame-metadata dict after the sanitization block of frameReady:
\* meta["mda_event"] = ev_clean is an assignment into the dict passed in
TiffCleanMeta(meta) ==
    IF meta.mda_event # NoEvent /\ meta.mda_event.sequence # NoSeq
    THEN [meta EXCEPT !.mda_event = CleanEvent(@)]
    ELSE meta

----------------------------------------------------------------------------
(* Serialization *)

\* a sequence can be encoded unless its metadata holds a live object
SeqSerializable(seq) ==
    seq = NoSeq
    \/ \A k \in DOMAIN seq.vals.metadata : seq.vals.metadata[k] # LiveObject

\* model_dump_json(exclude_unset=True) / to_builtins: only the fields that
\* were set
DumpSeq(seq) == [f \in seq.fields_set |-> seq.vals[f]]

MetaSerializable(meta) ==
    meta.mda_event = NoEvent \/ SeqSerializable(meta.mda_event.sequence)

\* json_dumps of one frame-metadata dict
DumpMeta(meta) ==
    IF meta.mda_event = NoEvent THEN [frame_id |-> meta.frame_id]
    ELSE [frame_id |-> meta.frame_id,
          mda_event |->
            [index |-> meta.mda_event.index,
             pos_name |-> meta.mda_event.pos_name,
             sequence |-> IF meta.mda_event.sequence = NoSeq THEN NoSeq
                          ELSE DumpSeq(meta.mda_event.sequence)]]

----------------------------------------------------------------------------
(* Filename policy of TiffSequenceWriterMM *)

Zeros(k) == IF k <= 0 THEN "" ELSE IF k = 1 THEN "0" ELSE IF k = 2 THEN "00"
            ELSE IF k = 3 THEN "000" ELSE "0000"
Digits(n) == IF n < 10 THEN 1 ELSE IF n < 100 THEN 2 ELSE IF n < 1000 THEN 3
             ELSE IF n < 10000 THEN 4 ELSE 5
\* "{n:0w}"
Pad(n, w) == Zeros(w - Digits(n)) \o ToString(n)

AxisWidth(a) == CASE a = "p" -> 3 [] a = "t" -> 4 [] a = "c" -> 2 [] OTHER -> 3

\* the per-run template: prefix, optional {frame:05}, one field per axis
NoTemplate == [kind |-> "empty"]
fname_template(axes, prefix, ext, frame) ==
    [kind |-> "template", axes |-> axes, prefix |-> prefix, ext |-> ext,
     frame |-> frame]

\* one zero-padded field per axis, joined by the delimiter
RECURSIVE FormatAxes(_, _, _)
FormatAxes(axes, indices, i) ==
    IF i > Len(axes) THEN ""
    ELSE (IF i > 1 THEN "_" ELSE "")
         \o axes[i] \o Pad(indices[axes[i]], AxisWidth(axes[i]))
         \o FormatAxes(axes, indices, i + 1)

\* Variant: {**event.index, **self._first_index}, the zeros win
MergeIndexFirstWins(first, index) ==
    [a \in (DOMAIN first) \cup (DOMAIN index) |->
        IF a \in DOMAIN first THEN first[a] ELSE index[a]]

\* indices = {**self._first_index, **event.index}: the event's values win
MergeIndex(first, index) ==
    [a \in (DOMAIN first) \cup (DOMAIN index) |->
        IF a \in DOMAIN index THEN index[a] ELSE first[a]]

\* Variant: the frame field restarts with every position
TiffFilenamePerPosition(template, first_index, event, frame_idx) ==
    template.prefix
    \o (IF template.frame THEN Pad(frame_idx % (NumT * NumC), 5) \o "_" ELSE "")
    \o FormatAxes(template.axes, MergeIndex(first_index, event.index), 1)
    \o template.ext

\* Variant: the frame counter is never put in the name
TiffFilenameNoCounter(template, first_index, event, frame_idx) ==
    template.prefix
    \o FormatAxes(template.axes, MergeIndex(first_index, event.index), 1)
    \o template.ext

\* the filename of frameReady: the template filled with the indices (and with
\* the frame counter when the template has the frame field), or the counter
\* alone when there is no template
TiffFilename(template, first_index, event, frame_idx) ==
    IF template # NoTemplate
    THEN template.prefix
         \o (IF template.frame THEN Pad(frame_idx, 5) \o "_" ELSE "")
         \o FormatAxes(template.axes, MergeIndex(first_index, event.index), 1)
         \o template.ext
    ELSE "_fr" \o Pad(frame_idx, 5) \o ".tif"

\* Variant: the position name is not used
PosKeyIndexOnly(event) ==
    "p" \o ToString(IF "p" \in DOMAIN event.index
                    THEN event.index["p"] ELSE 0)

\* pos_name = event.pos_name or f"p{event.index.get('p', 0)}"
PosKey(event) ==
    IF event.pos_name # "" THEN event.pos_name
    ELSE "p" \o ToString(IF "p" \in DOMAIN event.index
                         THEN event.index["p"] ELSE 0)

----------------------------------------------------------------------------
(* TiffSequenceWriterMM *)

\* the values of the buffered records, as json_dumps sees them
TiffBufferValues(buffer, records) ==
    [fn \in DOMAIN buffer |-> records[buffer[fn]]]

BufferSerializable(values) ==
    \A fn \in DOMAIN values : MetaSerializable(values[fn])

DumpBuffer(values) == [fn \in DOMAIN values |-> DumpMeta(values[fn])]

\* the target directory exists and holds something
DirNonEmpty(dir) ==
    /\ dir.exists
    /\ dir.subdirs # {} \/ dir.seq_file # NoFile \/ dir.meta_file # NoFile

\* axes = get_full_sequence_axes(seq): the axes of the axis order that the
\* sequence uses (the position axis only when it has stage positions)
FullSequenceAxes(seq) ==
    SelectSeq(seq.vals.axis_order,
              LAMBDA a : a # "p" \/ Len(seq.vals.stage_positions) > 0)

\* self._first_index = dict.fromkeys(axes, 0)
FirstIndex(axes) == [a \in {axes[i] : i \in DOMAIN axes} |-> 0]

\* Variant: the counter and the buffer are carried over from the last run
TiffAfterStartNoReset(old, seq, template) ==
    [_counter |-> old._counter,
     _frame_metadata |-> old._frame_metadata,
     _current_sequence |-> seq,
     _first_index |-> FirstIndex(template.axes),
     _name_template |-> template]

\* the writer's fields once sequenceStarted has run: counter and buffer
\* reset, the sequence, the first index and the filename template stored
TiffAfterStart(old, seq, template) ==
    [_counter |-> 0,
     _frame_metadata |-> <<>>,
     _current_sequence |-> seq,
     _first_index |-> FirstIndex(template.axes),
     _name_template |-> template]

\* Variant: the sidecar is written only when there is none yet
SeqFileKeptIfPresent(old, updated_seq) ==
    IF old = NoFile THEN File(DumpSeq(updated_seq)) ELSE old

\* self._seq_meta_file.write_text(updated_seq.model_dump_json(...))
SeqFileAfterStart(old, updated_seq) == File(DumpSeq(updated_seq))

\* Variant: mkdir(exist_ok=True), which needs the parent directory
MkdirNoParents(dir) ==
    IF dir.parent_exists THEN [dir EXCEPT !.exists = TRUE] ELSE dir

\* self._directory.mkdir(parents=True, exist_ok=True)
MkdirParents(dir) == [dir EXCEPT !.parent_exists = TRUE, !.exists = TRUE]

\* _dir = self._directory / pos_name
\* if not _dir.exists(): _dir.mkdir(parents=True, exist_ok=True)
MkdirPosition(dir, pos_name) ==
    IF dir.exists /\ pos_name \in dir.subdirs THEN dir
    ELSE [dir EXCEPT !.parent_exists = TRUE, !.exists = TRUE,
                     !.subdirs = @ \cup {pos_name}]

\* sequenceStarted(seq, meta)
TiffSequenceStarted(seq) ==
    /\ writer = "tiff"
    /\ phase # "started"
    /\ runs < MaxRuns
    /\ LET template == fname_template(FullSequenceAxes(seq), "", ".tif",
                                      include_frame_count)
           updated_seq == CleanSequence(seq)
           made == MkdirParents(fs)
       IN /\ tiff' = TiffAfterStart(tiff, seq, template)
          /\ engSeq' = SeqObjAfterClean(seq)
          /\ givenSeq' = seq
          /\ IF ~SeqSerializable(updated_seq)
             THEN /\ fs' = made
                  /\ raised' = "SerializationError"
             ELSE IF ~made.exists  \* write_text needs the directory
             THEN /\ fs' = made
                  /\ raised' = "FileNotFoundError"
             ELSE /\ fs' = [made EXCEPT
                              !.seq_file = SeqFileAfterStart(@, updated_seq)]
                  /\ raised' = "none"
    /\ phase' = "started"
    /\ runs' = runs + 1
    /\ op' = "sequenceStarted"
    /\ nfin' = 0
    /\ recs' = <<>>
    /\ handed' = <<>>
    /\ UNCHANGED <<reader, link, writer, evKind, overwrite, include_frame_count, zarrVars, tsVars>>

\* Variant: the flush is counted from 1
TiffFlushDueOneBased(frame_idx) == (frame_idx + 1) % FlushEvery = 0

\* if frame_idx % 10 == 0
TiffFlushDue(frame_idx) == frame_idx % FlushEvery = 0

\* frameReady(frame, event, meta)
TiffFrameReadyOn(event, meta) ==
    /\ writer = "tiff"
    /\ phase = "started"
    /\ LET n == Len(recs)
           frame_idx == tiff._counter
           filename == TiffFilename(tiff._name_template, tiff._first_index,
                                    event, frame_idx)
           pos_name == PosKey(event)
           path == <<pos_name, filename>>
           made == MkdirPosition(fs, pos_name)
           \* imwrite needs the directory of the file
           written == made.exists /\ pos_name \in made.subdirs
           meta_after == IF written THEN TiffCleanMeta(meta) ELSE meta
           records == Append(recs, meta_after)
           buffer == IF written
                     THEN (filename :> Len(records)) @@ tiff._frame_metadata
                     ELSE tiff._frame_metadata
           values == TiffBufferValues(buffer, records)
           flush == written /\ TiffFlushDue(frame_idx)
       IN /\ tiff' = [tiff EXCEPT !._counter = frame_idx + 1,
                                  !._frame_metadata = buffer]
          /\ recs' = records
          /\ handed' = Append(handed, meta)
          /\ engSeq' = IF meta_after # meta THEN SeqObjAfterClean(engSeq) ELSE engSeq
          /\ fs' = IF written
                   THEN [made EXCEPT
                           !.images = (path :> <<runs, n>>) @@ @,
                           !.meta_file = IF flush /\ BufferSerializable(values)
                                         THEN File(DumpBuffer(values)) ELSE @]
                   ELSE made
          /\ raised' = IF ~written THEN "FileNotFoundError"
                       ELSE IF flush /\ ~BufferSerializable(values)
                       THEN "SerializationError" ELSE "none"
    /\ op' = "frameReady"
    /\ nfin' = 0
    /\ UNCHANGED <<reader, link, writer, phase, runs, evKind, givenSeq, overwrite,
                   include_frame_count, zarrVars, tsVars>>

\* the engine delivers the next event of the running sequence
TiffFrameReady ==
    /\ Len(recs) < NumFrames
    /\ TiffFrameReadyOn(
          EngineEvent(engSeq, Len(recs), IF evKind = "noev" THEN "full" ELSE evKind),
          EngineMeta(engSeq, Len(recs), evKind, runs))

\* the inherited end-of-run handler: the whole buffer goes to the sidecar
TiffFinalize(how) ==
    /\ writer = "tiff"
    /\ phase = "started"
    /\ (how = "finished" => Len(recs) = NumFrames)
    /\ LET values == TiffBufferValues(tiff._frame_metadata, recs)
       IN IF BufferSerializable(values)
          THEN /\ fs' = [fs EXCEPT !.meta_file = File(DumpBuffer(values))]
               /\ raised' = "none"
          ELSE /\ fs' = fs
               /\ raised' = "SerializationError"
    /\ phase' = how
    /\ op' = IF how = "finished" THEN "sequenceFinished" ELSE "sequenceCanceled"
    /\ nfin' = 1
    /\ UNCHANGED <<reader, link, writer, runs, evKind, engSeq, givenSeq, recs, handed,
                   overwrite, include_frame_count, tiff, zarrVars,
                   tsVars>>

TiffSequenceFinished == TiffFinalize("finished")
TiffSequenceCanceled == TiffFinalize("canceled")

----------------------------------------------------------------------------
(* OMEZarrWriterMM *)

\* the frame-metadata dict after the sanitization block of finalize_metadata:
\* frame_meta["mda_event"] = ev_clean assigns into the buffered dict
ZarrCleanMeta(frame_meta) ==
    IF frame_meta.mda_event # NoEvent /\ frame_meta.mda_event.sequence # NoSeq
    THEN [frame_meta EXCEPT !.mda_event = CleanEvent(@)]
    ELSE frame_meta

\* the dimensions of one position array: the non-position axes, then y, x
ArrayDims == <<"t", "c", "y", "x">>

\* _multiscales_item(ary.path, ary.path, dims)
MultiscalesItem(path, dims) == [name |-> path, path |-> path, axes |-> dims]

\* Variant: scales starts from an empty list at every call
NewArrayStoreFreshScales(store, key, dims, seq) ==
    [multiscales |-> <<MultiscalesItem(key, dims)>>,
     arrays |-> (key :> [attrs |-> [_ARRAY_DIMENSIONS |-> dims,
                                    useq_MDASequence |-> NoFile,
                                    frame_meta |-> NoFile],
                         chunks |-> {}]) @@ store.arrays]

\* new_array(key, dtype, sizes): the group after the array was created
NewArrayStore(store, key, dims, seq) ==
    LET updated_seq == CleanSequence(seq)
        attrs == IF seq # NoSeq /\ SeqSerializable(updated_seq)
                 THEN [_ARRAY_DIMENSIONS |-> dims,
                       useq_MDASequence |-> File(DumpSeq(updated_seq)),
                       frame_meta |-> NoFile]
                 ELSE [_ARRAY_DIMENSIONS |-> dims,
                       useq_MDASequence |-> NoFile,
                       frame_meta |-> NoFile]
    IN [multiscales |-> Append(store.multiscales, MultiscalesItem(key, dims)),
        arrays |-> (key :> [attrs |-> attrs, chunks |-> {}]) @@ store.arrays]

NewArrayRaises(seq) == seq # NoSeq /\ ~SeqSerializable(CleanSequence(seq))

\* the records a finalize_metadata call sanitizes: those buffered under a key
\* that has a position array
ZarrTouched(buffer, arrays) ==
    UNION { {buffer[k][i] : i \in 1..Len(buffer[k])} :
            k \in (DOMAIN buffer) \cap arrays }

ZarrRecsAfterFinalize(records, buffer, arrays) ==
    [i \in DOMAIN records |->
        IF i \in ZarrTouched(buffer, arrays) THEN ZarrCleanMeta(records[i])
        ELSE records[i]]

\* Variant: the loop runs over the position arrays instead of popping the
\* buffer, so an array without buffered records gets an empty list
ZarrStoreAfterFinalizeAllArrays(store, records, buffer, arrays) ==
    [store EXCEPT !.arrays =
        [k \in DOMAIN store.arrays |->
            IF k \in arrays
            THEN [store.arrays[k] EXCEPT !.attrs.frame_meta =
                    File(IF k \in DOMAIN buffer
                         THEN [i \in 1..Len(buffer[k]) |->
                                DumpMeta(ZarrCleanMeta(records[buffer[k][i]]))]
                         ELSE <<>>)]
            ELSE store.arrays[k]]]

\* finalize_metadata(): the group after every buffered key was popped
ZarrStoreAfterFinalize(store, records, buffer, arrays) ==
    [store EXCEPT !.arrays =
        [k \in DOMAIN store.arrays |->
            IF k \in (DOMAIN buffer) \cap arrays
            THEN [store.arrays[k] EXCEPT !.attrs.frame_meta =
                    File([i \in 1..Len(buffer[k]) |->
                            DumpMeta(ZarrCleanMeta(records[buffer[k][i]]))])]
            ELSE store.arrays[k]]]

\* Variant: the loop reads the items without popping them
ZarrBufferKept(buffer) == buffer

\* the buffer when the while loop ends: every item was popped
ZarrBufferAfterFinalize(buffer) == <<>>

\* the inherited sequenceStarted: the buffer is cleared, the sequence kept
ZarrSequenceStarted(seq) ==
    /\ writer = "zarr"
    /\ phase = "idle"
    /\ zarr' = [zarr EXCEPT !.frame_metadatas = <<>>, !.current_sequence = seq]
    /\ engSeq' = seq
    /\ givenSeq' = seq
    /\ phase' = "started"
    /\ runs' = runs + 1
    /\ op' = "sequenceStarted"
    /\ nfin' = 0
    /\ raised' = "none"
    /\ recs' = <<>>
    /\ handed' = <<>>
    /\ UNCHANGED <<reader, link, writer, evKind, tiffVars, zstore, tsVars>>

\* the inherited frameReady, which calls new_array on the first frame of a key
ZarrFrameReady ==
    /\ writer = "zarr"
    /\ phase = "started"
    /\ Len(recs) < NumFrames
    /\ LET n == Len(recs)
           event == EngineEvent(engSeq, n, IF evKind = "noev" THEN "full" ELSE evKind)
           meta == EngineMeta(engSeq, n, evKind, runs)
           key == PosKey(event)
           fresh == key \notin zarr.position_arrays
           seq == zarr.current_sequence
           store1 == IF fresh THEN NewArrayStore(zstore, key, ArrayDims, seq)
                     ELSE zstore
           old == IF key \in DOMAIN zarr.frame_metadatas
                  THEN zarr.frame_metadatas[key] ELSE <<>>
       IN /\ zstore' = [store1 EXCEPT !.arrays[key].chunks =
                            @ \cup {<<event.index["t"], event.index["c"]>>}]
          /\ zarr' = [zarr EXCEPT
                        !.position_arrays = @ \cup {key},
                        !.frame_metadatas =
                            (key :> Append(old, n + 1)) @@ @]
          /\ engSeq' = IF fresh /\ seq # NoSeq THEN SeqObjAfterClean(engSeq)
                       ELSE engSeq
          /\ raised' = IF fresh /\ NewArrayRaises(seq)
                       THEN "SerializationError" ELSE "none"
          /\ recs' = Append(recs, meta)
          /\ handed' = Append(handed, meta)
    /\ op' = "frameReady"
    /\ nfin' = 0
    /\ UNCHANGED <<reader, link, writer, phase, runs, evKind, givenSeq, tiffVars, tsVars>>

\* finalize_metadata() on the writer as it stands
ZarrFinalizeEffect ==
    /\ zstore' = ZarrStoreAfterFinalize(zstore, recs, zarr.frame_metadatas,
                                        zarr.position_arrays)
    /\ recs' = ZarrRecsAfterFinalize(recs, zarr.frame_metadatas,
                                     zarr.position_arrays)
    /\ zarr' = [zarr EXCEPT !.frame_metadatas =
                                ZarrBufferAfterFinalize(zarr.frame_metadatas)]
    /\ engSeq' = IF recs' # recs THEN SeqObjAfterClean(engSeq) ELSE engSeq
    /\ raised' = "none"

\* the inherited end-of-run handler: finalize_metadata(), then the buffer is
\* cleared
ZarrSequenceFinished ==
    /\ writer = "zarr"
    /\ phase = "started"
    /\ Len(recs) = NumFrames
    /\ ZarrFinalizeEffect
    /\ phase' = "finished"
    /\ op' = "sequenceFinished"
    /\ nfin' = 1
    /\ UNCHANGED <<reader, link, writer, runs, evKind, givenSeq, handed, tiffVars, tsVars>>

ZarrSequenceCanceled ==
    /\ writer = "zarr"
    /\ phase = "started"
    /\ ZarrFinalizeEffect
    /\ phase' = "canceled"
    /\ op' = "sequenceCanceled"
    /\ nfin' = 1
    /\ UNCHANGED <<reader, link, writer, runs, evKind, givenSeq, handed, tiffVars, tsVars>>

\* a further finalize_metadata() call after the run
ZarrFinalizeMetadata ==
    /\ writer = "zarr"
    /\ phase \in {"finished", "canceled"}
    /\ nfin < MaxFinalize
    /\ ZarrFinalizeEffect
    /\ op' = "finalize_metadata"
    /\ nfin' = nfin + 1
    /\ UNCHANGED <<reader, link, writer, phase, runs, evKind, givenSeq, handed, tiffVars,
                   tsVars>>

----------------------------------------------------------------------------
(* TensorStoreWriterMM *)

TsDriver == {"zarr", "zarr3", "n5", "neuroglancer_precomputed"}

\* the frame-metadata dict after the sanitization loop of finalize_metadata:
\* f["mda_event"] = ev_clean assigns into the buffered dict
TsCleanMeta(f) ==
    IF f.mda_event # NoEvent /\ f.mda_event.sequence # NoSeq
    THEN [f EXCEPT !.mda_event = CleanEvent(@)]
    ELSE f

\* metadata = {"frame_metadatas": frames_meta} plus, when not in nD-storage
\* mode, "frame_indices": one (coordinate, flat index) pair per map entry
TsMetadata(records, buffer, nd_storage, frame_indices) ==
    LET frames_meta == [i \in 1..Len(buffer) |->
                            DumpMeta(TsCleanMeta(records[buffer[i]]))]
    IN IF nd_storage
       THEN [k \in {"frame_metadatas"} |-> frames_meta]
       ELSE [k \in {"frame_metadatas", "frame_indices"} |->
                IF k = "frame_metadatas" THEN frames_meta
                ELSE {<<c, frame_indices[c]>> : c \in DOMAIN frame_indices}]

\* attrs.update(metadata)
DictUpdate(attrs, metadata) ==
    [k \in (DOMAIN attrs) \cup (DOMAIN metadata) |->
        IF k \in DOMAIN metadata THEN metadata[k] ELSE attrs[k]]

\* startswith("zarr")
IsZarrDriver(driver) == driver \in {"zarr", "zarr3"}

\* the key-value store when finalize_metadata returns: the zarr branch waits
\* for its write (.result()), the n5 branch issues its write and returns, any
\* other driver writes nothing
TsKvAfterFinalize(store, driver, metadata) ==
    IF IsZarrDriver(driver)
    THEN [store EXCEPT !.files = (".zattrs" :> metadata) @@ @]
    ELSE IF driver = "n5"
    THEN [store EXCEPT !.pending =
            Append(@, <<"attributes.json",
                        DictUpdate(store.files["attributes.json"], metadata)>>)]
    ELSE store

TsRecsAfterFinalize(records, buffer) ==
    [i \in DOMAIN records |->
        IF \E j \in 1..Len(buffer) : buffer[j] = i
        THEN TsCleanMeta(records[i]) ELSE records[i]]

\* the file that holds the array metadata once the store is open
TsArrayFile(driver) ==
    IF driver = "n5" THEN "attributes.json"
    ELSE IF driver = "zarr" THEN ".zarray"
    ELSE IF driver = "zarr3" THEN "zarr.json" ELSE "info"

\* the inherited sequenceStarted: the store handle, the buffer and the
\* flat-index map are reset
TsSequenceStarted(seq) ==
    /\ writer = "ts"
    /\ phase = "idle"
    /\ ts' = [ts EXCEPT !._store = "None", !.frame_metadatas = <<>>,
                        !._frame_indices = <<>>, !._frame_index = 0,
                        !.chunks = {}]
    /\ engSeq' = seq
    /\ givenSeq' = seq
    /\ phase' = "started"
    /\ runs' = runs + 1
    /\ op' = "sequenceStarted"
    /\ nfin' = 0
    /\ raised' = "none"
    /\ recs' = <<>>
    /\ handed' = <<>>
    /\ UNCHANGED <<reader, link, writer, evKind, tiffVars, zarrVars, kv>>

\* the inherited frameReady: the store is opened on the first frame, the
\* pixels are written, (event, meta) is buffered and, when not in nD-storage
\* mode, the coordinate gets the next flat index
TsFrameReady ==
    /\ writer = "ts"
    /\ phase = "started"
    /\ Len(recs) < NumFrames
    /\ LET n == Len(recs)
           event == EngineEvent(engSeq, n, IF evKind = "noev" THEN "full" ELSE evKind)
           meta == EngineMeta(engSeq, n, evKind, runs)
           file == TsArrayFile(ts.ts_driver)
       IN /\ ts' = [ts EXCEPT
                      !._store = "open",
                      !.frame_metadatas = Append(@, n + 1),
                      !._frame_indices =
                          IF ts._nd_storage THEN @
                          ELSE (event.index :> ts._frame_index) @@ @,
                      !._frame_index = IF ts._nd_storage THEN @ ELSE @ + 1,
                      !.chunks = @ \cup {event.index}]
          /\ kv' = IF ts._store = "None"
                   THEN [kv EXCEPT !.files =
                            (file :> [k \in {"dimensions"} |-> ArrayDims]) @@ @]
                   ELSE kv
          /\ recs' = Append(recs, meta)
          /\ handed' = Append(handed, meta)
    /\ op' = "frameReady"
    /\ nfin' = 0
    /\ raised' = "none"
    /\ UNCHANGED <<reader, link, writer, phase, runs, evKind, engSeq, givenSeq, tiffVars,
                   zarrVars>>

\* finalize_metadata() on the writer as it stands
TsFinalizeEffect ==
    IF ts._store = "None"
    THEN UNCHANGED <<kv, recs, engSeq>>
    ELSE /\ kv' = TsKvAfterFinalize(kv, ts.ts_driver,
                        TsMetadata(recs, ts.frame_metadatas, ts._nd_storage,
                                   ts._frame_indices))
         /\ recs' = TsRecsAfterFinalize(recs, ts.frame_metadatas)
         /\ engSeq' = IF recs' # recs THEN SeqObjAfterClean(engSeq) ELSE engSeq

\* the inherited end-of-run handler: finalize_metadata() when frames were
\* buffered
TsSequenceFinished ==
    /\ writer = "ts"
    /\ phase = "started"
    /\ Len(recs) = NumFrames
    /\ TsFinalizeEffect
    /\ phase' = "finished"
    /\ op' = "sequenceFinished"
    /\ nfin' = 1
    /\ raised' = "none"
    /\ UNCHANGED <<reader, link, writer, runs, evKind, givenSeq, handed, tiffVars, zarrVars,
                   ts>>

TsSequenceCanceled ==
    /\ writer = "ts"
    /\ phase = "started"
    /\ TsFinalizeEffect
    /\ phase' = "canceled"
    /\ op' = "sequenceCanceled"
    /\ nfin' = 1
    /\ raised' = "none"
    /\ UNCHANGED <<reader, link, writer, runs, evKind, givenSeq, handed, tiffVars, zarrVars,
                   ts>>

\* a further finalize_metadata() call after the run
TsFinalizeMetadata ==
    /\ writer = "ts"
    /\ phase \in {"finished", "canceled"}
    /\ nfin < MaxFinalize
    /\ TsFinalizeEffect
    /\ op' = "finalize_metadata"
    /\ nfin' = nfin + 1
    /\ raised' = "none"
    /\ UNCHANGED <<reader, link, writer, phase, runs, evKind, givenSeq, handed, tiffVars,
                   zarrVars, ts>>

\* a write that was issued without waiting for it reaches the store
TsWriteLands ==
    /\ writer = "ts"
    /\ Len(kv.pending) > 0
    /\ kv' = [files |-> (kv.pending[1][1] :> kv.pending[1][2]) @@ kv.files,
              pending |-> Tail(kv.pending)]
    /\ UNCHANGED <<reader, link, engineVars, tiffVars, zarrVars, ts>>

----------------------------------------------------------------------------
(* Specification *)

\* no reader is open while the writer is driven
NoReader == [op |-> "closed"]

\* no Slack link is attached while the writer is driven
NoLink == [op |-> "none"]

EmptyDir == [parent_exists |-> TRUE, exists |-> FALSE, subdirs |-> {}, images |-> <<>>,
             seq_file |-> NoFile, meta_file |-> NoFile]

Init ==
    /\ writer \in {"tiff", "zarr", "ts"}
    /\ phase = "idle"
    /\ runs = 0
    /\ op = "init"
    /\ nfin = 0
    /\ raised = "none"
    /\ evKind \in EvKinds
    /\ engSeq = NoSeq
    /\ givenSeq = NoSeq
    /\ recs = <<>>
    /\ handed = <<>>
    /\ overwrite \in (IF writer = "tiff" THEN BOOLEAN ELSE {FALSE})
    /\ include_frame_count \in (IF writer = "tiff" THEN BOOLEAN ELSE {TRUE})
    /\ tiff = [_counter |-> 0, _frame_metadata |-> <<>>,
               _current_sequence |-> NoSeq, _first_index |-> <<>>,
               _name_template |-> NoTemplate]
    /\ fs \in { [EmptyDir EXCEPT !.parent_exists = b] :
                    b \in (IF writer = "tiff" THEN BOOLEAN ELSE {TRUE}) }
    /\ zarr = [frame_metadatas |-> <<>>, position_arrays |-> {},
               current_sequence |-> NoSeq]
    /\ zstore = [multiscales |-> <<>>, arrays |-> <<>>]
    /\ ts \in [ts_driver : (IF writer = "ts" THEN TsDriver ELSE {"zarr"}),
                _nd_storage : (IF writer = "ts" THEN BOOLEAN ELSE {TRUE}),
                _store : {"None"},
                frame_metadatas : {<<>>}, _frame_indices : {<<>>},
                _frame_index : {0}, chunks : {{}}]
    /\ kv = [files |-> <<>>, pending |-> <<>>]
    /\ reader = NoReader
    /\ link = NoLink

Next ==
    \/ \E seq \in SeqInputs : TiffSequenceStarted(seq)
    \/ TiffFrameReady
    \/ TiffSequenceFinished
    \/ TiffSequenceCanceled
    \/ \E seq \in SeqInputs : ZarrSequenceStarted(seq)
    \/ ZarrFrameReady
    \/ ZarrSequenceFinished
    \/ ZarrSequenceCanceled
    \/ ZarrFinalizeMetadata
    \/ \E seq \in SeqInputs : TsSequenceStarted(seq)
    \/ TsFrameReady
    \/ TsSequenceFinished
    \/ TsSequenceCanceled
    \/ TsFinalizeMetadata
    \/ TsWriteLands

Spec == Init /\ [][Next]_vars

----------------------------------------------------------------------------
(* What the stores hold *)

Range(f) == {f[x] : x \in DOMAIN f}

HasHandler(seq) == seq # NoSeq /\ HANDLER_KEY \in DOMAIN seq.vals.metadata

RECURSIVE ApplyWrites(_, _)
\* the files of the key-value store once the writes in flight have landed
ApplyWrites(files, pending) ==
    IF pending = <<>> THEN files
    ELSE ApplyWrites((pending[1][1] :> pending[1][2]) @@ files, Tail(pending))

\* every version of every file the key-value store holds or is being sent
TsFileVersions ==
    Range(kv.files) \cup {kv.pending[i][2] : i \in 1..Len(kv.pending)}

\* the frame-metadata records on disk / in the store, per writer
TiffPersistedMetas ==
    IF fs.meta_file = NoFile THEN {} ELSE Range(fs.meta_file.content)
ZarrPersistedMetas ==
    UNION { Range(zstore.arrays[k].attrs.frame_meta.content) :
            k \in {a \in DOMAIN zstore.arrays :
                        zstore.arrays[a].attrs.frame_meta # NoFile} }
TsPersistedMetas ==
    UNION { Range(v["frame_metadatas"]) :
            v \in {w \in TsFileVersions : "frame_metadatas" \in DOMAIN w} }
PersistedMetas == TiffPersistedMetas \cup ZarrPersistedMetas \cup TsPersistedMetas

\* the sequence descriptions on disk / in the store
PersistedSeqs ==
    (IF fs.seq_file = NoFile THEN {} ELSE {fs.seq_file.content})
    \cup { zstore.arrays[k].attrs.useq_MDASequence.content :
           k \in {a \in DOMAIN zstore.arrays :
                        zstore.arrays[a].attrs.useq_MDASequence # NoFile} }

\* an encoded sequence description has no handler slot
DumpHasHandler(d) ==
    "metadata" \in DOMAIN d /\ HANDLER_KEY \in DOMAIN d["metadata"]

\* an encoded frame-metadata record embeds an event whose sequence has the slot
MetaDumpHasHandler(r) ==
    /\ "mda_event" \in DOMAIN r
    /\ r.mda_event.sequence # NoSeq
    /\ DumpHasHandler(r.mda_event.sequence)

----------------------------------------------------------------------------
(* Claims *)

\* C1: every frame-metadata record a writer has persisted (the TIFF sidecar at
\* each flush, the zarr arrays' 'frame_meta', tensorstore's 'frame_metadatas')
\* embeds an event whose sequence metadata has no 'mm_handler' key.
C1_NoHandlerInPersistedFrameMeta ==
    \A r \in PersistedMetas : ~MetaDumpHasHandler(r)

\* C1 witness: a sidecar flush has persisted the record of a frame whose
\* event came with a sequence that held the handler slot.
C1_Witness ==
    /\ writer = "tiff"
    /\ op = "frameReady"
    /\ HasHandler(givenSeq)
    /\ \E r \in TiffPersistedMetas :
          "mda_event" \in DOMAIN r /\ r.mda_event.sequence # NoSeq

\* C2: every persisted sequence description (_useq_MDASequence.json, the zarr
\* array attribute 'useq_MDASequence') has a metadata mapping without the
\* 'mm_handler' key, whatever the input sequence's metadata held.
C2_NoHandlerInPersistedSequence ==
    \A d \in PersistedSeqs : ~DumpHasHandler(d)

\* C2 witness: sequenceStarted has written the sidecar for a sequence whose
\* metadata held the handler slot.
C2_Witness ==
    /\ writer = "tiff"
    /\ op = "sequenceStarted"
    /\ HasHandler(givenSeq)
    /\ fs.seq_file # NoFile

\* C3: after frameReady / finalize_metadata, every frame-metadata record the
\* engine handed to the writer is as it was handed over: it still refers, under
\* 'mda_event', to the original event, whose sequence metadata still has the
\* handler slot.
C3_FrameMetaNotMutated == recs = handed

\* C4: the engine's MDASequence object is never changed by the writer: after
\* sequenceStarted, new_array, frameReady or finalize_metadata its metadata
\* mapping still holds 'mm_handler' and every other key (the original events
\* refer to this same object).
C4_SequenceNotMutated ==
    phase # "idle" => engSeq = givenSeq

\* C4 witness: a record was sanitized (its event now carries a cleaned copy of
\* the sequence) while the engine's sequence holds the handler slot.
C4_Witness ==
    /\ HasHandler(givenSeq)
    /\ \E i \in 1..Len(recs) :
          /\ recs[i].mda_event # NoEvent
          /\ recs[i].mda_event.sequence # NoSeq
          /\ ~HasHandler(recs[i].mda_event.sequence)

\* C5: with overwrite not requested, sequenceStarted on a target directory
\* that exists and is not empty fails with a setup error and leaves the
\* directory (both sidecars and the image files) as it was.
C5_OverwritePolicy ==
    [][ (/\ writer = "tiff"
         /\ ~overwrite
         /\ DirNonEmpty(fs)
         /\ op' = "sequenceStarted"
         /\ runs' = runs + 1)
        => (raised' = "SetupError" /\ fs' = fs) ]_vars

\* how many persisted metadata records belong to the frame `id`
TiffCount(id) ==
    IF fs.meta_file = NoFile THEN 0
    ELSE Cardinality({fn \in DOMAIN fs.meta_file.content :
                        fs.meta_file.content[fn].frame_id = id})
ZarrCount(id) ==
    Cardinality(
        {ki \in UNION { {<<k, i>> :
                            i \in DOMAIN zstore.arrays[k].attrs.frame_meta.content} :
                        k \in {a \in DOMAIN zstore.arrays :
                                zstore.arrays[a].attrs.frame_meta # NoFile} } :
            zstore.arrays[ki[1]].attrs.frame_meta.content[ki[2]].frame_id = id})
TsCount(id) ==
    LET files == ApplyWrites(kv.files, kv.pending)
    IN Cardinality(
        {fi \in UNION { {<<f, i>> : i \in DOMAIN files[f]["frame_metadatas"]} :
                        f \in {g \in DOMAIN files :
                                "frame_metadatas" \in DOMAIN files[g]} } :
            files[fi[1]]["frame_metadatas"][fi[2]].frame_id = id})
PersistedCount(id) ==
    IF writer = "tiff" THEN TiffCount(id)
    ELSE IF writer = "zarr" THEN ZarrCount(id) ELSE TsCount(id)

\* the pixel data of the i-th frame of the run is in the store
PixelsStored(i) ==
    LET ev == EngineEvent(givenSeq, i - 1, "full")
    IN IF writer = "tiff"
       THEN \E path \in DOMAIN fs.images :
                path[1] = PosKey(ev) /\ fs.images[path] = handed[i].frame_id
       ELSE IF writer = "zarr"
       THEN /\ PosKey(ev) \in DOMAIN zstore.arrays
            /\ <<ev.index["t"], ev.index["c"]>>
                    \in zstore.arrays[PosKey(ev)].chunks
       ELSE ev.index \in ts.chunks

\* C6: after sequenceFinished, for every writer, the store holds exactly one
\* metadata record for every frame delivered since sequenceStarted, the
\* frames after the last periodic flush included.
C6_FinalizeFlushesAll ==
    op = "sequenceFinished" =>
        \A i \in 1..Len(handed) : PersistedCount(handed[i].frame_id) = 1

\* C7: after sequenceStarted, k frames and sequenceCanceled, the store holds
\* the pixel data and the metadata record of each of the k frames.
C7_CanceledRunFinalized ==
    op = "sequenceCanceled" =>
        \A i \in 1..Len(handed) :
            PixelsStored(i) /\ PersistedCount(handed[i].frame_id) = 1

\* the persisted frame metadata of the zarr group and of the key-value store
ZarrFrameMeta ==
    [k \in DOMAIN zstore.arrays |-> zstore.arrays[k].attrs.frame_meta]
TsStored == ApplyWrites(kv.files, kv.pending)

\* C8: a finalize_metadata call that follows a finalize (no frame in between)
\* leaves the persisted frame metadata of OMEZarrWriterMM and
\* TensorStoreWriterMM exactly as the first call left it.
C8_FinalizeIdempotent ==
    [][ (op' = "finalize_metadata" /\ nfin >= 1 /\ nfin' = nfin + 1)
        => (ZarrFrameMeta' = ZarrFrameMeta /\ TsStored' = TsStored) ]_vars

\* C8 witness: finalize has run a second time on a zarr group whose arrays
\* hold frame metadata.
C8_Witness ==
    /\ writer = "zarr"
    /\ op = "finalize_metadata"
    /\ nfin >= 2
    /\ \E k \in DOMAIN zstore.arrays :
          /\ zstore.arrays[k].attrs.frame_meta # NoFile
          /\ zstore.arrays[k].attrs.frame_meta.content # <<>>

----------------------------------------------------------------------------
(* Readers *)

\* the field values of an MDASequence that was built without arguments
SeqDefaults ==
    [axis_order |-> <<"t", "p", "g", "c", "z">>,
     stage_positions |-> <<>>,
     metadata |-> <<>>,
     keep_shutter_open_across |-> <<>>]

\* decoding a persisted sequence description: the fields it lists, the
\* defaults for the others
ParseSeq(d) ==
    [kind |-> "MDASequence",
     vals |-> [f \in DOMAIN SeqDefaults |->
                IF f \in DOMAIN d THEN d[f] ELSE SeqDefaults[f]],
     fields_set |-> DOMAIN d]

\* the sequence descriptions a reader finds in a store: the sidecar, the
\* arrays' 'useq_MDASequence', or the sequence of the events in tensorstore's
\* 'frame_metadatas'
StoredSeqs(files) ==
    PersistedSeqs
    \cup { r.mda_event.sequence :
           r \in {x \in UNION { Range(v["frame_metadatas"]) :
                                v \in {w \in Range(files) :
                                        "frame_metadatas" \in DOMAIN w} } :
                    "mda_event" \in DOMAIN x /\ x.mda_event.sequence # NoSeq} }

\* the sequence a reader returns: whether it is given the path of the store
\* or the store's open handle, it decodes the description found in that store
ReaderSequences == {ParseSeq(d) : d \in StoredSeqs(kv.files)}

\* the sequence the engine ran, with the handler entry left out of its metadata
ExpectedVals ==
    LET m == givenSeq.vals.metadata
    IN [givenSeq.vals EXCEPT
            !.metadata = [k \in (DOMAIN m) \ {HANDLER_KEY} |-> m[k]]]

ImagesIn(dir) == {path \in DOMAIN fs.images : path[1] = dir}

\* the subdirectory names of the positions of the sequence that was run:
\* the position's name, p<index> for an unnamed position
PositionDirs ==
    LET names == givenSeq.vals.stage_positions
    IN {IF names[i] # "" THEN names[i] ELSE "p" \o ToString(i - 1) :
            i \in DOMAIN names}

\* one subdirectory per position with NumT * NumC image files each, nothing
\* else, and both sidecars at the top level
TiffLayout ==
    /\ fs.subdirs = PositionDirs
    /\ \A d \in fs.subdirs : Cardinality(ImagesIn(d)) = NumT * NumC
    /\ {path[1] : path \in DOMAIN fs.images} \subseteq fs.subdirs
    /\ fs.seq_file # NoFile
    /\ fs.meta_file # NoFile

\* C10: after a complete run of a rectangular sequence with P positions and
\* F frames per position, the output directory holds exactly one
\* subdirectory per position (p0 .. p<P-1> when the positions are unnamed),
\* each with exactly F image files, and both sidecars at the top level.
C10_Layout ==
    (writer = "tiff" /\ op = "sequenceFinished") => TiffLayout

----------------------------------------------------------------------------
(* Readers: random access and re-export of a finished store *)

ReaderFormats == {"ome-zarr", "tensorstore-zarr"}

\* the axis orders a sequence may declare for its p, t and c axes
ReaderAxisOrders == {<<"p", "t", "c">>, <<"t", "p", "c">>, <<"c", "t", "p">>}

\* the sizes of the axes of the sequence, and of a frame
AxisSizes == [p |-> NumP, t |-> NumT, c |-> NumC]
FrameShape == <<512, 512>>

\* selectors: a mapping from some of the axes to an index within the axis
Selectors ==
    UNION { {s \in [D -> 0..(NumT - 1)] : \A a \in D : s[a] < AxisSizes[a]} :
            D \in SUBSET {"p", "t", "c"} }

\* the frames the run stored, each named by its index
StoredFrames == {EventIndex(n) : n \in 0..(NumFrames - 1)}

NoResult == [kind |-> "None"]
NoError == [type |-> "none"]
IndexErrorOn(axis) == [type |-> "IndexError", axis |-> axis]

\* Variant: the free axes in the order the store keeps them
FreeAxesStoreOrder(order, selector) ==
    SelectSeq(<<"p", "t", "c">>, LAMBDA a : a \notin DOMAIN selector)

\* the axes a selector leaves free, in the order the sequence declares them
FreeAxes(order, selector) ==
    SelectSeq(order, LAMBDA a : a \notin DOMAIN selector)

\* the array isel returns: the axes left free with their sizes, then the frame
\* shape, over the stored frames that match the selector
IselArray(order, selector) ==
    LET free == FreeAxes(order, selector)
    IN [kind |-> "array",
        dims |-> free \o <<"y", "x">>,
        shape |-> [i \in 1..Len(free) |-> AxisSizes[free[i]]] \o FrameShape,
        frames |-> {f \in StoredFrames :
                        \A a \in DOMAIN selector : f[a] = selector[a]}]

\* Variant: every reader asks for the position
IselRaisesAnyFormat(fmt, selector) ==
    IF "p" \notin DOMAIN selector THEN IndexErrorOn("p") ELSE NoError

\* the chunked-group reader has one array per position and needs the position
IselRaises(fmt, selector) ==
    IF fmt = "ome-zarr" /\ "p" \notin DOMAIN selector
    THEN IndexErrorOn("p") ELSE NoError

\* isel(selector): the array, or nothing at all when it raises
Isel(fmt, order, selector) ==
    IF IselRaises(fmt, selector) # NoError THEN NoResult
    ELSE IselArray(order, selector)

\* a reader is opened on the store of a complete run; the writer is not driven
ReaderInit ==
    /\ writer = "none"
    /\ phase = "finished"
    /\ runs = 1
    /\ op = "sequenceFinished"
    /\ nfin = 1
    /\ raised = "none"
    /\ evKind = "full"
    /\ engSeq = NoSeq
    /\ givenSeq = NoSeq
    /\ recs = <<>>
    /\ handed = <<>>
    /\ overwrite = FALSE
    /\ include_frame_count = TRUE
    /\ tiff = [_counter |-> 0, _frame_metadata |-> <<>>,
               _current_sequence |-> NoSeq, _first_index |-> <<>>,
               _name_template |-> NoTemplate]
    /\ fs = EmptyDir
    /\ zarr = [frame_metadatas |-> <<>>, position_arrays |-> {},
               current_sequence |-> NoSeq]
    /\ zstore = [multiscales |-> <<>>, arrays |-> <<>>]
    /\ ts = [ts_driver |-> "zarr", _nd_storage |-> TRUE, _store |-> "None",
             frame_metadatas |-> <<>>, _frame_indices |-> <<>>,
             _frame_index |-> 0, chunks |-> {}]
    /\ kv = [files |-> <<>>, pending |-> <<>>]
    /\ reader \in [op : {"open"}, fmt : ReaderFormats,
                   axis_order : ReaderAxisOrders,
                   selector : {<<>>}, kwargs : {<<>>},
                   result : {NoResult}, raised : {NoError}, files : {<<>>}]
    /\ link = NoLink

\* w.isel(selector)
ReaderIsel ==
    \E selector \in Selectors :
        /\ reader.op = "open"
        /\ reader' = [reader EXCEPT
                        !.op = "isel",
                        !.selector = selector,
                        !.kwargs = <<>>,
                        !.result = Isel(reader.fmt, reader.axis_order, selector),
                        !.raised = IselRaises(reader.fmt, selector),
                        !.files = <<>>]
        /\ UNCHANGED <<engineVars, tiffVars, zarrVars, tsVars, link>>

\* C11: for a selector that fixes the position axis, isel returns an array
\* whose leading dimensions are the sizes of the axes the selector leaves
\* free, in the order the sequence declares them, followed by (Y, X).
C11_IselShape ==
    (reader.op = "isel" /\ "p" \in DOMAIN reader.selector) =>
        /\ reader.result # NoResult
        /\ Len(reader.result.shape)
              = 3 - Cardinality(DOMAIN reader.selector) + 2
        /\ \A i \in 1..Len(reader.result.shape) :
              reader.result.shape[i] =
                IF i > Len(reader.result.shape) - 2 THEN 512
                ELSE LET a == CHOOSE x \in {"p", "t", "c"} \ DOMAIN reader.selector :
                            Cardinality({j \in 1..3 :
                                /\ reader.axis_order[j] \notin DOMAIN reader.selector
                                /\ \E k \in j..3 : reader.axis_order[k] = x}) = i
                     IN AxisSizes[a]

\* C11 witness: isel({p: 0}) on a sequence declared c, t, p returned an array
\* of shape (NumC, NumT, 512, 512).
C11_Witness ==
    /\ reader.op = "isel"
    /\ reader.axis_order = <<"c", "t", "p">>
    /\ DOMAIN reader.selector = {"p"}
    /\ reader.result # NoResult
    /\ reader.result.shape = <<NumC, NumT, 512, 512>>

\* C12: on the chunked-group reader, isel with a selector that does not fix
\* the position axis fails with an IndexError naming that axis and returns
\* nothing; on the flat-tensor reader the same selector does not fail.
C12_PositionMandatory ==
    (reader.op = "isel" /\ "p" \notin DOMAIN reader.selector) =>
        IF reader.fmt = "ome-zarr"
        THEN /\ reader.raised = IndexErrorOn("p")
             /\ reader.result = NoResult
        ELSE /\ reader.raised = NoError
             /\ reader.result # NoResult

\* C12 witness: isel({}) was called on the chunked-group reader and raised.
C12_Witness ==
    /\ reader.op = "isel"
    /\ reader.fmt = "ome-zarr"
    /\ reader.selector = <<>>
    /\ reader.raised # NoError

\* Variant: the positional selector wins over the keywords
WriteTiffIndexersSelectorWins(selector, kwargs) == selector @@ kwargs

\* indexers = {**(selector or {}), **kwargs}
WriteTiffIndexers(selector, kwargs) == kwargs @@ selector

\* what write_tiff raises: without any indexer the chunked-group reader has
\* no position to read; otherwise whatever isel raises
WriteTiffRaises(fmt, selector, kwargs) ==
    IselRaises(fmt, WriteTiffIndexers(selector, kwargs))

\* the image files write_tiff leaves: <dest>.tiff with the isel result of the
\* indexers; without any indexer, one file per position inside <dest>
WriteTiffFiles(fmt, order, selector, kwargs) ==
    LET indexers == WriteTiffIndexers(selector, kwargs)
    IN IF WriteTiffRaises(fmt, selector, kwargs) # NoError THEN <<>>
       ELSE IF indexers = <<>>
       THEN [name \in {"test/p" \o ToString(i) \o ".tif" : i \in 0..(NumP - 1)} |->
                LET i == CHOOSE j \in 0..(NumP - 1) :
                            name = "test/p" \o ToString(j) \o ".tif"
                IN IselArray(order, [a \in {"p"} |-> i])]
       ELSE [name \in {"test.tiff"} |-> IselArray(order, indexers)]

\* w.write_tiff(dest, selector, **kwargs)
ReaderWriteTiff ==
    \E selector \in Selectors, kwargs \in Selectors :
        /\ reader.op = "open"
        /\ reader' = [reader EXCEPT
                        !.op = "write_tiff",
                        !.selector = selector,
                        !.kwargs = kwargs,
                        !.result = NoResult,
                        !.raised = WriteTiffRaises(reader.fmt, selector, kwargs),
                        !.files = WriteTiffFiles(reader.fmt, reader.axis_order,
                                                 selector, kwargs)]
        /\ UNCHANGED <<engineVars, tiffVars, zarrVars, tsVars, link>>

\* reader(data=w.store): a reader is opened again on the same store; a reader
\* keeps nothing from one call to the next
ReaderOpen ==
    /\ reader.op \in {"isel", "write_tiff"}
    /\ reader' = [reader EXCEPT !.op = "open", !.selector = <<>>,
                                !.kwargs = <<>>, !.result = NoResult,
                                !.raised = NoError, !.files = <<>>]
    /\ UNCHANGED <<engineVars, tiffVars, zarrVars, tsVars, link>>

ReaderNext ==
    \/ ReaderIsel
    \/ ReaderWriteTiff
    \/ ReaderOpen

ReaderSpec == ReaderInit /\ [][ReaderNext]_vars

\* the merged selector: an axis given as keyword takes the keyword value, an
\* axis given only in the positional selector keeps that value
MergedSelector ==
    [a \in DOMAIN reader.selector \cup DOMAIN reader.kwargs |->
        IF a \in DOMAIN reader.kwargs THEN reader.kwargs[a]
        ELSE reader.selector[a]]

\* C13: write_tiff(destination, selector, **overrides) writes the isel result
\* of the merged selector, the keyword value winning for an axis given twice;
\* the same selector passed as a dict or as keywords gives the same output.
C13_WriteTiffMerge ==
    (reader.op = "write_tiff" /\ reader.raised = NoError) =>
        LET whole == IselArray(reader.axis_order, MergedSelector)
        IN /\ UNION {reader.files[f].frames : f \in DOMAIN reader.files}
                = whole.frames
           /\ MergedSelector # <<>> =>
                reader.files = [name \in {"test.tiff"} |-> whole]
           /\ reader.files = WriteTiffFiles(reader.fmt, reader.axis_order,
                                            MergedSelector, <<>>)
           /\ reader.files = WriteTiffFiles(reader.fmt, reader.axis_order,
                                            <<>>, MergedSelector)

\* C13 witness: write_tiff was given the position both ways, with different
\* values, and wrote the frames of the keyword's position.
C13_Witness ==
    /\ reader.op = "write_tiff"
    /\ reader.raised = NoError
    /\ "p" \in DOMAIN reader.selector
    /\ "p" \in DOMAIN reader.kwargs
    /\ reader.selector["p"] # reader.kwargs["p"]
    /\ \E f \in DOMAIN reader.files :
          \A fr \in reader.files[f].frames : fr["p"] = reader.kwargs["p"]

----------------------------------------------------------------------------
(* TensorStoreWriterMM: what finalize_metadata leaves in the store *)

\* the attribute files of the store that carry the key `k`
TsFilesWith(k) == {f \in DOMAIN TsStored : k \in DOMAIN TsStored[f]}

\* finalize_metadata has run on an open store
TsFinalized ==
    /\ writer = "ts"
    /\ op \in {"sequenceFinished", "sequenceCanceled", "finalize_metadata"}
    /\ ts._store # "None"

\* a set of (coordinate, flat index) pairs is one-to-one and its flat indices
\* are 0, 1, 2, ... without a gap
OneToOnePairs(pairs) ==
    /\ \A x, y \in pairs : (x[1] = y[1]) <=> (x[2] = y[2])
    /\ {x[2] : x \in pairs} = 0..(Cardinality(pairs) - 1)

\* C14: outside nD-storage mode finalize_metadata persists under
\* 'frame_indices' exactly one (coordinate, flat index) pair per entry of the
\* writer's index map, the map being one-to-one without skipped or reused
\* flat index and covering every written frame; in nD-storage mode no
\* 'frame_indices' entry is written.
C14_FrameIndicesPersisted ==
    TsFinalized =>
        IF ts._nd_storage
        THEN TsFilesWith("frame_indices") = {}
        ELSE /\ TsFilesWith("frame_indices") # {}
             /\ \A f \in TsFilesWith("frame_indices") :
                  LET pairs == TsStored[f]["frame_indices"]
                  IN /\ pairs = {<<c, ts._frame_indices[c]>> :
                                    c \in DOMAIN ts._frame_indices}
                     /\ Cardinality(pairs)
                            = Cardinality(DOMAIN ts._frame_indices)
                     /\ OneToOnePairs(pairs)
                     /\ {x[1] : x \in pairs} = ts.chunks

\* C15: for every driver the writer accepts, finalize_metadata on an open
\* store with k buffered records leaves the store's attributes holding a
\* 'frame_metadatas' list of those k records.
C15_FrameMetaForEveryDriver ==
    TsFinalized =>
        /\ TsFilesWith("frame_metadatas") # {}
        /\ \A f \in TsFilesWith("frame_metadatas") :
              TsStored[f]["frame_metadatas"]
                = [i \in 1..Len(ts.frame_metadatas) |->
                        DumpMeta(recs[ts.frame_metadatas[i]])]

\* C16: when finalize_metadata has returned, the attribute write it issued
\* has completed, whatever the driver: no write is still in flight.
C16_FinalizeBlocking ==
    TsFinalized => kv.pending = <<>>

----------------------------------------------------------------------------
(* TiffSequenceWriterMM: sidecars and filenames within and across runs *)

\* the image files written by the current run, as (subdirectory, filename)
CurrentRunImages == {path \in DOMAIN fs.images : fs.images[path][1] = runs}

\* C17: whenever an image file of the current run exists, the sequence
\* sidecar exists and describes the sequence of the current run, not the one
\* of an earlier run.
C17_SeqSidecarBeforeFrames ==
    (writer = "tiff" /\ CurrentRunImages # {}) =>
        /\ fs.seq_file # NoFile
        /\ ParseSeq(fs.seq_file.content).vals = ExpectedVals

\* C17 witness: a second run has written an image.
C17_Witness ==
    /\ writer = "tiff"
    /\ runs = 2
    /\ CurrentRunImages # {}
    /\ fs.seq_file # NoFile

\* the records of the buffer that the sidecar does not hold
TiffLag ==
    {fn \in DOMAIN tiff._frame_metadata :
        \/ fs.meta_file = NoFile
        \/ fn \notin DOMAIN fs.meta_file.content
        \/ fs.meta_file.content[fn] # DumpMeta(recs[tiff._frame_metadata[fn]])}

\* C18: a frameReady call rewrites _frame_metadata.json with the whole
\* buffer exactly when the 0-based counter of its frame is a multiple of 10,
\* and leaves it alone for any other frame; the sidecar is never more than 9
\* records behind the buffer.
C18_FlushCadence ==
    [][ (writer = "tiff" /\ op' = "frameReady") =>
            /\ IF tiff._counter % 10 = 0
               THEN /\ fs'.meta_file # NoFile
                    /\ fs'.meta_file # fs.meta_file
                    /\ DOMAIN fs'.meta_file.content
                            = DOMAIN tiff'._frame_metadata
                    /\ TiffLag' = {}
               ELSE fs'.meta_file = fs.meta_file
            /\ Cardinality(TiffLag') <= 9 ]_vars

\* C18 witness: the frame numbered 10 has been written and the sidecar holds
\* the 11 records of the run.
C18_Witness ==
    /\ writer = "tiff"
    /\ op = "frameReady"
    /\ tiff._counter = 11
    /\ fs.meta_file # NoFile
    /\ Cardinality(DOMAIN fs.meta_file.content) = 11
    /\ TiffLag = {}

\* the name the test expects for the n-th frame (0-based) of a p,t,c run
ExpectedTiffName(n) ==
    Pad(n, 5) \o "_p" \o Pad(EventIndex(n)["p"], 3)
              \o "_t" \o Pad(EventIndex(n)["t"], 4)
              \o "_c" \o Pad(EventIndex(n)["c"], 2) \o ".tif"

\* C19: within a run the frame field of a filename is the 0-based ordinal of
\* the frameReady call since sequenceStarted; it goes up by one per frame and
\* carries on from one position to the next.
C19_RunningFrameCounter ==
    (writer = "tiff" /\ include_frame_count) =>
        /\ \A path \in CurrentRunImages :
              path[2] = ExpectedTiffName(fs.images[path][2])
        /\ \A n \in 0..(Len(handed) - 1) :
              \E path \in CurrentRunImages :
                  fs.images[path] = <<runs, n>>

\* C19 witness: the first frame of position 1 is numbered 00006.
C19_Witness ==
    /\ writer = "tiff"
    /\ include_frame_count
    /\ <<"p1", "00006_p001_t0000_c00.tif">> \in CurrentRunImages
    /\ fs.images[<<"p1", "00006_p001_t0000_c00.tif">>] = <<runs, NumT * NumC>>

\* C20: every sequenceStarted restarts the frame counter at 0 and empties
\* the buffer: in a later run the first frame is numbered 0 and no record of
\* an earlier run is in the buffer or in any sidecar flush of the new run.
C20_PerRunReset ==
    writer = "tiff" =>
        /\ op = "sequenceStarted" =>
              (tiff._counter = 0 /\ tiff._frame_metadata = <<>>)
        /\ phase = "started" =>
              /\ tiff._counter = Len(handed)
              /\ \A fn \in DOMAIN tiff._frame_metadata :
                    recs[tiff._frame_metadata[fn]].frame_id[1] = runs
        /\ (op \in {"frameReady", "sequenceFinished", "sequenceCanceled"}
                /\ fs.meta_file # NoFile) =>
              \A fn \in DOMAIN fs.meta_file.content :
                    fs.meta_file.content[fn].frame_id[1] = runs

\* C20 witness: the first frame of a second run has been written with the
\* counter restarted, and the sidecar holds that one record.
C20_Witness ==
    /\ writer = "tiff"
    /\ runs = 2
    /\ op = "frameReady"
    /\ tiff._counter = 1
    /\ fs.meta_file # NoFile
    /\ Cardinality(DOMAIN fs.meta_file.content) = 1

\* C21: a missing directory is created, never an error.  sequenceStarted
\* leaves the target directory (and its parent) in place and has written the
\* sequence sidecar whenever it returned; frameReady leaves the subdirectory
\* of the frame's position in place with the frame's image in it; neither
\* raises because a directory is absent.
C21_MissingDirsCreated ==
    [][ /\ (writer = "tiff" /\ runs' = runs + 1) =>
              /\ raised' # "FileNotFoundError"
              /\ fs'.parent_exists /\ fs'.exists
              /\ (raised' = "none" => fs'.seq_file # NoFile)
        /\ (writer = "tiff" /\ Len(recs') = Len(recs) + 1) =>
              LET pos == PosKey(EngineEvent(engSeq, Len(recs), "full"))
              IN /\ raised' # "FileNotFoundError"
                 /\ pos \in fs'.subdirs
                 /\ \E path \in DOMAIN fs'.images :
                       /\ path[1] = pos
                       /\ fs'.images[path] = <<runs, Len(recs)>>
      ]_vars

\* C21 witness: in the first run, on a directory that was absent, the first
\* frame of position 1 has been written into its new subdirectory.
C21_Witness ==
    /\ writer = "tiff"
    /\ runs = 1
    /\ op = "frameReady"
    /\ Len(recs) = NumT * NumC + 1
    /\ raised = "none"
    /\ fs.exists
    /\ fs.subdirs = {"p0", "p1"}
    /\ \E path \in DOMAIN fs.images : path[1] = "p1"

----------------------------------------------------------------------------
(* Ragged and sparse acquisitions on TiffSequenceWriterMM: the events the  *)
(* engine delivers need not carry every axis of the sequence, may carry    *)
(* other keys, and may repeat.                                             *)

\* number of frames of a ragged run
MaxSparseFrames == 3

\* the sequences of a ragged run: with two unnamed stage positions (axes
\* p, t, c) and without stage positions (axes t, c)
SparseSeqs ==
    { MDA([k \in {PYMMCW_METADATA_KEY} |-> "save_b"], Unnamed, SetFields),
      MDA([k \in {PYMMCW_METADATA_KEY} |-> "save_b"], <<>>, SetFields) }

\* event.index and event.pos_name of the events of a ragged run: complete
\* indices, an index without "p", an index with the further key "g", and a
\* named position
SparseEvents ==
    { [index |-> [a \in {"p", "t", "c"} |-> 0], pos_name |-> ""],
      [index |-> [a \in {"p", "t", "c"} |-> IF a = "p" THEN 1 ELSE 0],
       pos_name |-> ""],
      [index |-> [a \in {"t", "c"} |-> IF a = "t" THEN 1 ELSE 0],
       pos_name |-> ""],
      [index |-> [a \in {"p", "t", "c", "g"} |-> IF a = "c" THEN 0 ELSE 1],
       pos_name |-> "posA"],
      [index |-> [a \in {"p", "t", "c"} |-> 0], pos_name |-> "posA"] }

SparseEvent(e, seq, kind) ==
    [kind |-> "MDAEvent",
     index |-> e.index,
     pos_name |-> e.pos_name,
     sequence |-> IF kind = "noseq" THEN NoSeq ELSE seq]

\* a writer that was just constructed, whose frame metadata carries the event
SparseInit == Init /\ writer = "tiff" /\ evKind # "noev"

\* the one run of the writer starts
SparseSequenceStarted ==
    /\ phase = "idle"
    /\ \E seq \in SparseSeqs : TiffSequenceStarted(seq)

\* the engine delivers any event
SparseFrameReady ==
    /\ Len(recs) < MaxSparseFrames
    /\ \E e \in SparseEvents :
          TiffFrameReadyOn(SparseEvent(e, engSeq, evKind),
                           [mda_event |-> SparseEvent(e, engSeq, evKind),
                            frame_id |-> <<runs, Len(recs)>>])

SparseNext ==
    \/ SparseSequenceStarted
    \/ SparseFrameReady
    \/ TiffSequenceCanceled

SparseSpec == SparseInit /\ [][SparseNext]_vars

\* the event whose frame an image file holds
ImageEvent(path) == handed[fs.images[path][2] + 1].mda_event

\* C22: every frame is in the subdirectory of its event's position key
\* (position name, else p<N>, else p0), and frames of events with different
\* position keys are never in the same subdirectory.
C22_PositionSegregation ==
    LET ExpectedPosKey(event) ==
            CASE event.pos_name # "" -> event.pos_name
              [] event.pos_name = "" /\ "p" \in DOMAIN event.index ->
                    "p" \o ToString(event.index["p"])
              [] OTHER -> "p0"
    IN
    writer = "tiff" =>
        /\ \A path \in CurrentRunImages :
              path[1] = ExpectedPosKey(ImageEvent(path))
        /\ \A n \in 1..Len(handed) :
              \E path \in CurrentRunImages :
                  path[1] = ExpectedPosKey(handed[n].mda_event)
        /\ \A a, b \in CurrentRunImages :
              ExpectedPosKey(ImageEvent(a)) # ExpectedPosKey(ImageEvent(b))
                  => a[1] # b[1]

\* C22 witness: three frames, of a named position, of an unnamed position 1
\* and of an event without position index, are in three subdirectories.
C22_Witness ==
    /\ writer = "tiff"
    /\ op = "frameReady"
    /\ Len(handed) = 3
    /\ fs.subdirs = {"posA", "p1", "p0"}
    /\ \E n \in 1..Len(handed) :
          /\ "p" \notin DOMAIN handed[n].mda_event.index
          /\ \E path \in CurrentRunImages :
                fs.images[path] = <<runs, n - 1>> /\ path[1] = "p0"

\* C23: the filename of a frame is the run's template, built in
\* sequenceStarted from the sequence's full axis list and not changed during
\* the run, filled with the event's own index values; a declared axis missing
\* from the event's index is filled with 0; an index key that is not a
\* declared axis has no effect on the name, and frameReady does not fail.
C23_FilenameFromTemplate ==
    LET ExpectedField(a, event) ==
            a \o Pad(IF a \in DOMAIN event.index THEN event.index[a] ELSE 0,
                     AxisWidth(a))
        ExpectedSparseName(seq, event, n, frame) ==
            LET axes == FullSequenceAxes(seq)
            IN (IF frame THEN Pad(n, 5) \o "_" ELSE "")
               \o ExpectedField(axes[1], event) \o "_"
               \o ExpectedField(axes[2], event)
               \o (IF Len(axes) = 3 THEN "_" \o ExpectedField(axes[3], event)
                   ELSE "")
               \o ".tif"
    IN
    (writer = "tiff" /\ phase = "started") =>
        /\ tiff._name_template =
              fname_template(FullSequenceAxes(givenSeq), "", ".tif",
                             include_frame_count)
        /\ \A path \in CurrentRunImages :
              path[2] = ExpectedSparseName(givenSeq, ImageEvent(path),
                                           fs.images[path][2],
                                           include_frame_count)
        /\ \A n \in 1..Len(handed) :
              \E path \in CurrentRunImages :
                  path[2] = ExpectedSparseName(givenSeq, handed[n].mda_event,
                                               n - 1, include_frame_count)
        /\ op = "frameReady" => raised \in {"none", "SerializationError"}

\* C23 witness: in a run with axes p, t, c an event without "p" in its index
\* got the name with p000, and an event with the undeclared key "g" got a
\* name without it.
C23_Witness ==
    /\ writer = "tiff"
    /\ phase = "started"
    /\ ~include_frame_count
    /\ FullSequenceAxes(givenSeq) = <<"p", "t", "c">>
    /\ <<"p0", "p000_t0001_c00.tif">> \in CurrentRunImages
    /\ "p" \notin DOMAIN ImageEvent(<<"p0", "p000_t0001_c00.tif">>).index
    /\ <<"posA", "p001_t0001_c00.tif">> \in CurrentRunImages
    /\ "g" \in DOMAIN ImageEvent(<<"posA", "p001_t0001_c00.tif">>).index

----------------------------------------------------------------------------
(* OMEZarrWriterMM: arrays and group attributes *)

\* the sub-array key of the n-th frame (0-based) of the run
ZarrFrameKey(n) == PosKey(EngineEvent(givenSeq, n, "full"))

\* C24: an array is created for a sub-array key on the first frame with that
\* key and never again in the run; after every frame the group's multiscales
\* attribute holds exactly one item per created array, in creation order, and
\* each array's _ARRAY_DIMENSIONS equals its dimension names.
C24_OneArrayPerKey ==
    [][ (writer = "zarr" /\ Len(handed') = Len(handed) + 1) =>
          LET key == ZarrFrameKey(Len(handed))
              scales == zstore'.multiscales
              FirstFrameOf(k, count) ==
                  CHOOSE n \in 0..(count - 1) :
                      /\ ZarrFrameKey(n) = k
                      /\ \A m \in 0..(n - 1) : ZarrFrameKey(m) # k
          IN /\ IF key \in DOMAIN zstore.arrays
                THEN /\ scales = zstore.multiscales
                     /\ DOMAIN zstore'.arrays = DOMAIN zstore.arrays
                     /\ zstore'.arrays[key].attrs = zstore.arrays[key].attrs
                     /\ zstore.arrays[key].chunks \subseteq zstore'.arrays[key].chunks
                ELSE /\ scales = Append(zstore.multiscales,
                                        MultiscalesItem(key, ArrayDims))
                     /\ DOMAIN zstore'.arrays = DOMAIN zstore.arrays \cup {key}
             /\ Len(scales) = Cardinality(DOMAIN zstore'.arrays)
             /\ DOMAIN zstore'.arrays = {ZarrFrameKey(n) : n \in 0..Len(handed)}
             /\ \A k \in DOMAIN zstore'.arrays :
                   /\ Cardinality({i \in 1..Len(scales) : scales[i].path = k}) = 1
                   /\ zstore'.arrays[k].attrs._ARRAY_DIMENSIONS = ArrayDims
                   /\ \A i \in 1..Len(scales) :
                         scales[i].path = k =>
                             scales[i].axes = zstore'.arrays[k].attrs._ARRAY_DIMENSIONS
             /\ \A i, j \in 1..Len(scales) :
                   i < j => FirstFrameOf(scales[i].path, Len(handed) + 1)
                                < FirstFrameOf(scales[j].path, Len(handed) + 1)
      ]_vars

\* C24 witness: frames of both positions have arrived, the last one for a
\* key that already had its array; the group has two arrays and two items.
C24_Witness ==
    /\ writer = "zarr"
    /\ op = "frameReady"
    /\ Len(handed) = NumT * NumC + 2
    /\ Cardinality(DOMAIN zstore.arrays) = 2
    /\ Len(zstore.multiscales) = 2
    /\ zstore.multiscales[1].path = ZarrFrameKey(0)
    /\ zstore.multiscales[2].path = ZarrFrameKey(NumT * NumC)

\* C25: with the frame counter in the template no two frameReady calls of a
\* run produce the same filename: the buffer holds one record per frame
\* written, the run has one image file per frame, and every frame's image
\* and record are still there.
C25_UniqueKeys ==
    (writer = "tiff" /\ include_frame_count /\ phase = "started") =>
        /\ Cardinality(DOMAIN tiff._frame_metadata) = Len(handed)
        /\ Cardinality(CurrentRunImages) = Len(handed)
        /\ Cardinality({path[2] : path \in CurrentRunImages}) = Len(handed)
        /\ \A n \in 0..(Len(handed) - 1) :
              /\ \E path \in CurrentRunImages : fs.images[path] = <<runs, n>>
              /\ \E fn \in DOMAIN tiff._frame_metadata :
                    recs[tiff._frame_metadata[fn]].frame_id = <<runs, n>>

\* C25 witness: three frames were written, two of them for the same event,
\* and the buffer holds three records.
C25_Witness ==
    /\ writer = "tiff"
    /\ include_frame_count
    /\ phase = "started"
    /\ Len(handed) = 3
    /\ handed[1].mda_event = handed[2].mda_event
    /\ Cardinality(DOMAIN tiff._frame_metadata) = 3
    /\ Cardinality(CurrentRunImages) = 3

----------------------------------------------------------------------------
(* OMEZarrWriterMM: records put in the buffer outside frameReady *)

\* number of store_frame_metadata calls made on the writer after its run
MaxStored == 2

\* the records of recs that came in through store_frame_metadata
StoredDirectly == {i \in DOMAIN recs : recs[i].frame_id[2] < 0}

\* the inherited store_frame_metadata(key, event, meta), called directly:
\* self.frame_metadatas[key].append(meta)
ZarrStoreFrameMetadata(key) ==
    /\ writer = "zarr"
    /\ phase \in {"finished", "canceled"}
    /\ Cardinality(StoredDirectly) < MaxStored
    /\ LET meta == [EngineMeta(engSeq, 0, evKind, runs) EXCEPT
                      !.frame_id = <<runs, -1 - Cardinality(StoredDirectly), key>>]
           old == IF key \in DOMAIN zarr.frame_metadatas
                  THEN zarr.frame_metadatas[key] ELSE <<>>
       IN /\ zarr' = [zarr EXCEPT !.frame_metadatas =
                                     (key :> Append(old, Len(recs) + 1)) @@ @]
          /\ recs' = Append(recs, meta)
          /\ handed' = Append(handed, meta)
    /\ op' = "store_frame_metadata"
    /\ nfin' = 0
    /\ raised' = "none"
    /\ UNCHANGED <<reader, link, writer, phase, runs, evKind, engSeq, givenSeq,
                   tiffVars, zstore, tsVars>>

ZarrBufferInit == Init /\ writer = "zarr"

ZarrBufferNext ==
    \/ \E seq \in SeqInputs : ZarrSequenceStarted(seq)
    \/ ZarrFrameReady
    \/ ZarrSequenceFinished
    \/ ZarrSequenceCanceled
    \* a key that has a position array after a run of unnamed positions,
    \* and one that never has
    \/ \E key \in {"p0", "p9"} : ZarrStoreFrameMetadata(key)
    \/ ZarrFinalizeMetadata

ZarrBufferSpec == ZarrBufferInit /\ [][ZarrBufferNext]_vars

\* C26: when finalize_metadata has returned the buffer is empty; for each
\* buffered key that has a position array the array's frame_meta attribute
\* is exactly the list of that key's buffered records (its previous value is
\* gone); the records of a buffered key without position array are in no
\* attribute, and nothing else in the group has changed.
C26_FinalizeDrainsBuffer ==
    [][ LET \* the frame ids of the records an array's frame_meta attribute holds
            FrameMetaIds(store, k) ==
                IF store.arrays[k].attrs.frame_meta = NoFile THEN {}
                ELSE { store.arrays[k].attrs.frame_meta.content[i].frame_id :
                         i \in DOMAIN store.arrays[k].attrs.frame_meta.content }
        IN
        (writer = "zarr"
           /\ op' \in {"sequenceFinished", "sequenceCanceled", "finalize_metadata"}) =>
          LET buffer == zarr.frame_metadatas
              arrays == zarr.position_arrays
          IN /\ zarr'.frame_metadatas = <<>>
             /\ zarr'.position_arrays = arrays
             /\ DOMAIN zstore'.arrays = DOMAIN zstore.arrays
             /\ zstore'.multiscales = zstore.multiscales
             /\ \A k \in DOMAIN zstore.arrays :
                   IF k \in (DOMAIN buffer) \cap arrays
                   THEN zstore'.arrays[k].attrs.frame_meta =
                           File([i \in 1..Len(buffer[k]) |->
                                   DumpMeta(recs'[buffer[k][i]])])
                   ELSE zstore'.arrays[k] = zstore.arrays[k]
             /\ \A k \in (DOMAIN buffer) \ arrays :
                   \A i \in 1..Len(buffer[k]) :
                      \A a \in DOMAIN zstore'.arrays :
                         recs[buffer[k][i]].frame_id \notin FrameMetaIds(zstore', a)
      ]_vars

\* C26 witness: finalize_metadata has just drained a buffer that held one
\* record under p0, whose array had the frame metadata of the run, and one
\* under p9, which has no array: p0's attribute holds the one new record and
\* the record stored under p9 is nowhere.
C26_Witness ==
    LET \* the frame ids of the records an array's frame_meta attribute holds
        FrameMetaIds(store, k) ==
            IF store.arrays[k].attrs.frame_meta = NoFile THEN {}
            ELSE { store.arrays[k].attrs.frame_meta.content[i].frame_id :
                     i \in DOMAIN store.arrays[k].attrs.frame_meta.content }
    IN
    /\ writer = "zarr"
    /\ op = "finalize_metadata"
    /\ zarr.frame_metadatas = <<>>
    /\ "p0" \in DOMAIN zstore.arrays
    /\ "p9" \notin DOMAIN zstore.arrays
    /\ \E i, j \in StoredDirectly :
          /\ recs[i].frame_id[3] = "p0"
          /\ recs[j].frame_id[3] = "p9"
          /\ FrameMetaIds(zstore, "p0") = {recs[i].frame_id}
          /\ \A a \in DOMAIN zstore.arrays :
                recs[j].frame_id \notin FrameMetaIds(zstore, a)

----------------------------------------------------------------------------
(* MMSlackbotCoreLink (slackbot/_core_link_slackbot.py): Slack commands    *)
(* arrive on the GUI thread, engine events on the engine's thread; each    *)
(* handler runs to its end before the next one starts.                     *)

\* calls of run_mda made on the engine
MaxLinkRuns == 2
\* frames of one acquisition (the size of its time axis)
MaxLinkFrames == 2

RUN == "run"
CANCEL == "cancel"
PROGRESS == "progress"
MDA_COMMAND == "mda"
IMAGE == "image"

\* the two fixed replies, each with WARNING_EMOJI
NOT_RUNNING_MSG == [icon_emoji |-> ":warning:", text |-> "No MDA Sequence running!"]
RUNNING_MSG == [icon_emoji |-> ":warning:", text |-> "MDA Sequence already running!"]

\* the texts the Slack bot may emit
SlackTexts == {"run", "Run", "cancel", "CANCEL", "progress", "Progress",
               "mda", "MDA", "image", "Image", "clear", ""}

\* Variant: the text is compared as it came
LowerSkipped(text) == text

\* text.lower()
Lower(text) ==
    CASE text = "Run" -> "run"
      [] text = "CANCEL" -> "cancel"
      [] text = "Progress" -> "progress"
      [] text = "MDA" -> "mda"
      [] text = "Image" -> "image"
      [] OTHER -> text

\* the sequences of the MDA widget: the save name of its metadata and the
\* number of stage positions
LinkSeqs == { [kind |-> "MDASequence", save_name |-> "", npos |-> 1],
              [kind |-> "MDASequence", save_name |-> "exp1", npos |-> 4] }

\* the n-th event (0-based) of a run, and its image
LinkData(seq, run, n) ==
    [event |-> [kind |-> "MDAEvent", index |-> [a \in {"t"} |-> n],
                pos_name |-> "", sequence |-> seq],
     img |-> <<run, n>>]

\* self._current_data = (None, None)
NoData == [event |-> NoEvent, img |-> "None"]

\* _progress_message(event); the backquotes of the text are written '
_progress_message(event) ==
    IF event.sequence = NoSeq
    THEN [icon_emoji |-> ":warning:", text |-> "No MDASequence found!"]
    ELSE [icon_emoji |-> ":information_source:",
          text |-> "Status -> '" \o PosKey(event) \o " [t"
                   \o ToString(event.index["t"] + 1) \o "/"
                   \o ToString(MaxLinkFrames) \o "]'"]

\* _mda_sequence_message(event): the dump of the sequence, with the stage
\* positions replaced by their number when there are more than 3
_mda_sequence_message(event) ==
    IF event.sequence = NoSeq
    THEN [icon_emoji |-> ":warning:", text |-> "No MDASequence found!"]
    ELSE [icon_emoji |-> ":information_source:",
          text |-> <<"MDA Sequence:",
                     [save_name |-> event.sequence.save_name,
                      stage_positions |->
                         IF event.sequence.npos > 3
                         THEN ToString(event.sequence.npos)
                              \o " (hiding because too many)"
                         ELSE ToString(event.sequence.npos)]>>]

\* _send_message(sequence, emoji, text): the messages handed to the bot,
\* none when the link has no bot (backquotes written ')
_send_message(l, sequence, emoji, text) ==
    IF ~l._slackbot
    THEN <<>>
    ELSE <<[icon_emoji |-> emoji,
            text |-> text \o (IF sequence.save_name # ""
                              THEN " (file: '" \o sequence.save_name \o "')"
                              ELSE "")]>>

\* self._mda.run_mda(): the engine takes the request when it is idle and
\* refuses it otherwise
EngineRunMda(l) ==
    IF l.engine = "idle"
    THEN [l EXCEPT !.engine = "requested", !.run_calls = @ + 1]
    ELSE [l EXCEPT !.run_calls = @ + 1]

\* what a handler leaves behind for the observer: its name, the text it
\* got, the messages it sent and the calls it made
Handled(l, name, text, sent, called) ==
    [l EXCEPT !.op = name, !.text = text, !.sent = sent, !.called = called]

\* _on_slack_bot_signal(text)
OnSlackBotSignal(l, text) ==
    LET t == Lower(text)
        name == "_on_slack_bot_signal"
    IN CASE t = PROGRESS ->
              IF ~l._mda_running
              THEN Handled(l, name, text, <<NOT_RUNNING_MSG>>, {})
              ELSE IF l._current_data.event # NoEvent
              THEN Handled(l, name, text,
                           <<_progress_message(l._current_data.event)>>, {})
              ELSE Handled(l, name, text, <<>>, {})
         [] t = RUN ->
              IF l._mda_running
              THEN Handled(l, name, text, <<RUNNING_MSG>>, {})
              ELSE IF ~l._mda
              THEN Handled(l, name, text, <<>>, {})
              ELSE Handled(EngineRunMda(l), name, text, <<>>, {"run_mda"})
         [] t = CANCEL ->
              IF ~l._mda_running
              THEN Handled(l, name, text, <<NOT_RUNNING_MSG>>, {})
              \* self._mmc.mda.cancel(): a running acquisition is asked
              \* to stop
              ELSE Handled(IF l.engine = "running"
                           THEN [l EXCEPT !.cancel_requested = TRUE]
                           ELSE l,
                           name, text, <<>>, {"cancel"})
         [] t = MDA_COMMAND ->
              IF ~l._mda_running
              THEN Handled(l, name, text, <<NOT_RUNNING_MSG>>, {})
              ELSE IF l._current_data.event # NoEvent
              THEN Handled(l, name, text,
                           <<_mda_sequence_message(l._current_data.event)>>, {})
              ELSE Handled(l, name, text, <<>>, {})
         [] t = IMAGE ->
              IF ~l._mda_running
              THEN Handled(l, name, text, <<NOT_RUNNING_MSG>>, {})
              ELSE IF l._current_data.img # "None"
              THEN Handled(l, name, text, <<l._current_data.img>>, {})
              ELSE Handled(l, name, text, <<>>, {})
         [] OTHER -> Handled(l, name, text, <<>>, {})

\* the Slack bot emits slackMessage(text); the handler is connected only
\* when the link was given a bot
LinkSlackMessage ==
    /\ link.op # "none"
    /\ link._slackbot
    /\ \E text \in SlackTexts :
          /\ OnSlackBotSignal(link, text).run_calls <= MaxLinkRuns
          /\ link' = OnSlackBotSignal(link, text)
    /\ UNCHANGED <<engineVars, tiffVars, zarrVars, tsVars, reader>>

\* the user starts an acquisition from the MDA widget
WidgetRunMda ==
    /\ link.op # "none"
    /\ link.engine = "idle"
    /\ link.run_calls < MaxLinkRuns
    /\ link' = Handled(EngineRunMda(link), "run_mda", "", <<>>, {})
    /\ UNCHANGED <<engineVars, tiffVars, zarrVars, tsVars, reader>>

\* Variant: the pair is kept when a sequence starts
LinkDataKeptAtStart(data) == data

\* self._current_data = (None, None) in _on_sequence_started
LinkDataAfterStart(data) == NoData

\* the engine emits sequenceStarted: _on_sequence_started(sequence, meta)
LinkOnSequenceStarted ==
    /\ link.op # "none"
    /\ link.engine = "requested"
    /\ \E sequence \in LinkSeqs :
          link' = Handled([link EXCEPT !.engine = "running",
                                       !.run = @ + 1,
                                       !.frame = 0,
                                       !.cancel_requested = FALSE,
                                       !.seq = sequence,
                                       !._mda_running = TRUE,
                                       !._current_data = LinkDataAfterStart(@)],
                          "_on_sequence_started", "",
                          _send_message(link, sequence, ":rocket:",
                                      "MDA Sequence Started!"), {})
    /\ UNCHANGED <<engineVars, tiffVars, zarrVars, tsVars, reader>>

\* the engine emits frameReady: _on_frame_ready(img, event, metadata)
LinkOnFrameReady ==
    /\ link.op # "none"
    /\ link.engine = "running"
    /\ link.frame < MaxLinkFrames
    /\ link' = Handled([link EXCEPT !.frame = @ + 1,
                                    !._current_data =
                                        LinkData(link.seq, link.run, link.frame)],
                       "_on_frame_ready", "", <<>>, {})
    /\ UNCHANGED <<engineVars, tiffVars, zarrVars, tsVars, reader>>

\* the engine emits sequenceFinished after the last frame:
\* _on_sequence_finished(sequence)
LinkOnSequenceFinished ==
    /\ link.op # "none"
    /\ link.engine = "running"
    /\ link.frame = MaxLinkFrames
    /\ link' = Handled([link EXCEPT !.engine = "idle",
                                    !._mda_running = FALSE,
                                    !._current_data = NoData],
                       "_on_sequence_finished", "",
                       _send_message(link, link.seq, ":checkered_flag:",
                                   "MDA Sequence Finished!"), {})
    /\ UNCHANGED <<engineVars, tiffVars, zarrVars, tsVars, reader>>

\* the engine ends a run that was asked to stop with sequenceCanceled:
\* _on_sequence_canceled(sequence)
LinkOnSequenceCanceled ==
    /\ link.op # "none"
    /\ link.engine = "running"
    /\ link.cancel_requested
    /\ link' = Handled([link EXCEPT !.engine = "idle"],
                       "_on_sequence_canceled", "",
                       _send_message(link, link.seq, ":x:",
                                   "MDA Sequence Cancelled!"), {})
    /\ UNCHANGED <<engineVars, tiffVars, zarrVars, tsVars, reader>>

\* MMSlackbotCoreLink(mmcore=..., slackbot=..., mda=...) on an idle engine
LinkInit ==
    /\ writer = "none"
    /\ phase = "idle"
    /\ runs = 0
    /\ op = "init"
    /\ nfin = 0
    /\ raised = "none"
    /\ evKind = "full"
    /\ engSeq = NoSeq
    /\ givenSeq = NoSeq
    /\ recs = <<>>
    /\ handed = <<>>
    /\ overwrite = FALSE
    /\ include_frame_count = TRUE
    /\ tiff = [_counter |-> 0, _frame_metadata |-> <<>>,
               _current_sequence |-> NoSeq, _first_index |-> <<>>,
               _name_template |-> NoTemplate]
    /\ fs = EmptyDir
    /\ zarr = [frame_metadatas |-> <<>>, position_arrays |-> {},
               current_sequence |-> NoSeq]
    /\ zstore = [multiscales |-> <<>>, arrays |-> <<>>]
    /\ ts = [ts_driver |-> "zarr", _nd_storage |-> TRUE, _store |-> "None",
             frame_metadatas |-> <<>>, _frame_indices |-> <<>>,
             _frame_index |-> 0, chunks |-> {}]
    /\ kv = [files |-> <<>>, pending |-> <<>>]
    /\ reader = NoReader
    /\ link \in [_slackbot : BOOLEAN, _mda : BOOLEAN,
                 _mda_running : {FALSE}, _current_data : {NoData},
                 engine : {"idle"}, run : {0}, frame : {0},
                 cancel_requested : {FALSE}, seq : {NoSeq}, run_calls : {0},
                 op : {"__init__"}, text : {""}, sent : {<<>>}, called : {{}}]

\* the engine's events
LinkEngineNext ==
    \/ LinkOnSequenceStarted
    \/ LinkOnFrameReady
    \/ LinkOnSequenceFinished
    \/ LinkOnSequenceCanceled

LinkNext ==
    \/ LinkSlackMessage
    \/ WidgetRunMda
    \/ LinkEngineNext

LinkSpec == LinkInit /\ [][LinkNext]_vars

\* the engine does not stall: an event it can emit is emitted
LinkFairSpec == LinkSpec /\ WF_vars(LinkEngineNext)

\* C27: run_mda is called only when no acquisition is in progress; a 'run'
\* command that arrives while a requested run has not finished, also one that
\* arrives between the call of run_mda and the engine's sequenceStarted, does
\* not call run_mda and is answered with 'MDA Sequence already running!'.
C27_NoSecondAcquisition ==
    [][ /\ "run_mda" \in link'.called => link.engine = "idle"
        /\ (link'.op = "_on_slack_bot_signal"
              /\ link'.text \in {"run", "Run"}
              /\ link.engine # "idle") =>
                 (link'.called = {} /\ link'.sent = <<RUNNING_MSG>>)
      ]_vars

\* C28: a progress, cancel, mda or image command, in any letter case, received
\* while the running flag is false sends exactly one 'No MDA Sequence
\* running!' message, does not call the engine's cancel and changes no
\* state; a text that is none of the five commands sends nothing and changes
\* no state.
C28_RejectedOutsideRun ==
    [][ LET NeedsRunTexts == {"progress", "Progress", "cancel", "CANCEL",
                              "mda", "MDA", "image", "Image"}
            NoCommandTexts == {"clear", ""}
            \* the link's fields and the engine
            LinkState(l) ==
                <<l._mda_running, l._current_data, l.engine, l.run, l.frame,
                  l.cancel_requested, l.seq, l.run_calls>>
        IN
        link'.op = "_on_slack_bot_signal" =>
          /\ (link'.text \in NeedsRunTexts /\ ~link._mda_running) =>
                /\ link'.sent = <<NOT_RUNNING_MSG>>
                /\ link'.called = {}
                /\ LinkState(link') = LinkState(link)
          /\ link'.text \in NoCommandTexts =>
                /\ link'.sent = <<>>
                /\ link'.called = {}
                /\ LinkState(link') = LinkState(link)
      ]_vars

\* C28 witness: 'CANCEL' has just been answered with the one message while
\* no sequence was running.
C28_Witness ==
    /\ link.op = "_on_slack_bot_signal"
    /\ link.text = "CANCEL"
    /\ ~link._mda_running
    /\ link.sent = <<NOT_RUNNING_MSG>>
    /\ link.called = {}
    /\ ~link.cancel_requested

\* C29: the link always returns to not-running: whenever the running flag is
\* true it eventually becomes false again, whether the run ends with
\* sequenceFinished or with sequenceCanceled; the flag is set only by
\* sequenceStarted and cleared only by sequenceFinished.
C29_ReturnsToNotRunning ==
    /\ link._mda_running ~> ~link._mda_running
    /\ [][ /\ (~link._mda_running /\ link'._mda_running)
                 => link'.op = "_on_sequence_started"
           /\ (link._mda_running /\ ~link'._mda_running)
                 => link'.op = "_on_sequence_finished" ]_vars

\* C30: the kept (event, image) pair is cleared at every sequenceStarted and
\* sequenceFinished and set only by frameReady; a progress, mda or image
\* reply sent while the flag is true refers to the latest frame of the run
\* that was started last, and before that run's first frame no reply is sent.
C30_NoStaleFrame ==
    [][ LET FrameTexts == {"progress", "Progress", "mda", "MDA", "image", "Image"}
            \* the message that answers such a text for frame n (0-based)
            ExpectedFrameReply(text, seq, run, n) ==
                CASE text \in {"progress", "Progress"} ->
                        [icon_emoji |-> ":information_source:",
                         text |-> "Status -> 'p0 [t" \o ToString(n + 1) \o "/"
                                  \o ToString(MaxLinkFrames) \o "]'"]
                  [] text \in {"mda", "MDA"} ->
                        _mda_sequence_message([sequence |-> seq])
                  [] text \in {"image", "Image"} -> <<run, n>>
        IN
        /\ link'.op \in {"_on_sequence_started", "_on_sequence_finished"}
              => link'._current_data = NoData
        /\ (link'._current_data # link._current_data
              /\ link'._current_data # NoData)
              => (link'.op = "_on_frame_ready"
                    /\ link'._current_data =
                          LinkData(link.seq, link.run, link.frame))
        /\ (link'.op = "_on_slack_bot_signal" /\ link'.text \in FrameTexts
              /\ link._mda_running) =>
              IF link.frame = 0
              THEN link'.sent = <<>>
              ELSE link'.sent = <<ExpectedFrameReply(link'.text, link.seq,
                                                     link.run, link.frame - 1)>>
      ]_vars

\* C30 witness: in the second run a progress command has been answered for
\* that run's first frame.
C30_Witness ==
    /\ link.op = "_on_slack_bot_signal"
    /\ link.text = "progress"
    /\ link.run = 2
    /\ link.engine = "running"
    /\ link.frame = 1
    /\ link.sent = <<[icon_emoji |-> ":information_source:",
                      text |-> "Status -> 'p0 [t1/"
                               \o ToString(MaxLinkFrames) \o "]'"]>>

====
